---- MODULE Spec2Model ----
(***************************************************************************)
(* Model of palo_alto_firewall_analyzer:                                   *)
(*   - load_config_package        (pan_api_helpers.py)                     *)
(*   - find_badhostname / find_badhostnameusage (validators/bad_hostnames) *)
(*   - consolidate_service_like_objects (fixers/consolidate_equivalent_..) *)
(*   - run_policy_validators / write_validator_output                      *)
(*                                  (pan_policy_validator.py)              *)
(*                                                                         *)
(* The Panorama configuration (the exported XML, the device-group          *)
(* hierarchy, the firewall lists, the analyzer settings) is the input; it  *)
(* is built up by the Config* steps, and the program's operations then run *)
(* on whatever configuration has been built.                               *)
(***************************************************************************)
EXTENDS Integers, Sequences, FiniteSets, TLC

VARIABLES
    \* ---- input: arguments of load_config_package and what pan_config / pan_api return
    xml_file,            \* BOOLEAN: the xml_file argument was given
    device_group,        \* the device_group argument (None: --all)
    limit,               \* the limit argument (NoLimit: None)
    device_group_list,   \* pan_config.get_device_groups()
    hierarchy_parent,    \* device_group_hierarchy_parent: partial map dg -> parent
    hierarchy_children,  \* device_group_hierarchy_children: partial map dg -> <<children>>
    dgs_and_firewalls,   \* pan_api.get_device_groups_and_firewalls(): partial map dg -> <<fw>>
    active_firewalls,    \* pan_api.get_active_firewalls()
    cfg,                 \* the parsed configuration: cfg[scope][category] = <<entries>>
    ignored_cfg,         \* config 'Ignored DNS Prefixes', split at ','
    dns,                 \* the (lower-case) hostnames that resolve at present
    items,               \* how many configuration items have been added
    budget,              \* how many may be added
    \* ---- load_config_package
    phase,               \* "config" | "loaded" | "raised"
    pkg,                 \* the ProfilePackage returned (NoPkg before / on an exception)
    \* ---- validators
    ran,                 \* the validators that have been run
    reran,               \* the validators run again since the resolver last changed
    dns_cache,           \* the lookup cache: partial map hostname -> memoized answer
    bh_result,           \* what find_badhostname returned
    bh_lookups,          \* the hostnames find_badhostname handed to cached_dns_lookup
    usage_result,        \* what find_badhostnameusage returned
    \* ---- consolidation fixer
    validator_findings,  \* what the paired equivalence validator returns
    fail_at,             \* the 1-based remote call that raises (0: none does)
    fpc,                 \* "idle" | "loop" | "validate" | "done" | "raised"
    fidx,                \* index of the next Finding of the for loop
    trace,               \* the remote calls issued so far, in order
    fresult,             \* what the fixer returned
    \* ---- run_policy_validators / write_validator_output
    validators,          \* the validators dict of main, as the names in key order
    rpc,                 \* "idle" | "running" | "written"
    ridx,                \* index of the next validator of the for loop
    problems,            \* the problems dict, as <<key, value>> pairs in insertion order
    total_problems,      \* the running total
    returned,            \* what each validator call returned, in call order
    output               \* the lines written to the output file

vars == <<xml_file, device_group, limit, device_group_list, hierarchy_parent,
          hierarchy_children, dgs_and_firewalls, active_firewalls, cfg, ignored_cfg,
          dns, items, budget, phase, pkg, ran, reran, dns_cache, bh_result, bh_lookups,
          usage_result, validator_findings, fail_at, fpc, fidx, trace, fresult,
          validators, rpc, ridx, problems, total_problems, returned, output>>

inputVars == <<xml_file, device_group, limit, device_group_list, hierarchy_parent,
               hierarchy_children, dgs_and_firewalls, active_firewalls, cfg,
               ignored_cfg, dns>>
loadVars == <<phase, pkg>>
validatorVars == <<ran, reran, dns_cache, bh_result, bh_lookups, usage_result>>
fixerVars == <<validator_findings, fail_at, fpc, fidx, trace, fresult>>
reportVars == <<validators, rpc, ridx, problems, total_problems, returned, output>>

(***************************************************************************)
(* Bounds                                                                  *)
(***************************************************************************)
MaxItems == 3        \* configuration items added before load_config_package runs
MaxHostItems == 3    \* configuration items added before the hostname validators run
MaxFindings == 3     \* Findings the equivalence validator returns
MaxRerunItems == 2   \* configuration items added before the validators are run again
MaxReportItems == 2  \* configuration items added before the report is written
MaxFilterItems == 3  \* configuration items added under a device-group filter

(***************************************************************************)
(* Python values                                                           *)
(***************************************************************************)
None == "None"
NoLimit == -1
NoPkg == "NoPkg"

Names == {"A", "B", "shared"}
SUPPORTED_POLICY_TYPES == <<"SecurityPreRules", "SecurityPostRules">>
SUPPORTED_OBJECT_TYPES == <<"Addresses", "AddressGroups">>

Range(s) == {s[i] : i \in DOMAIN s}
PolicyTypeSet == Range(SUPPORTED_POLICY_TYPES)
ObjectTypeSet == Range(SUPPORTED_OBJECT_TYPES)
Categories == PolicyTypeSet \cup ObjectTypeSet

\* s[:n] of Python, n >= 0
Take(s, n) == IF n >= Len(s) THEN s ELSE SubSeq(s, 1, n)

\* s[:limit]
SliceLimit(s, lim) == IF lim = NoLimit THEN s ELSE Take(s, lim)

\* dict.get / a defaultdict(list) lookup on a partial map
DefaultList(m, k) == IF k \in DOMAIN m THEN m[k] ELSE <<>>

\* m[k] = v on a partial map
Put(m, k, v) == [x \in DOMAIN m \cup {k} |-> IF x = k THEN v ELSE m[x]]

EmptyMap == [x \in {} |-> <<>>]

(***************************************************************************)
(* Entries: the XML elements the parsed configuration hands out.  An       *)
(* element has attributes (name, uuid) and child elements (fqdn,           *)
(* static/member, disabled, source/member, destination/member).            *)
(***************************************************************************)
Entry(attrib, fqdn, members, disabled, source, destination) ==
    [attrib |-> attrib, fqdn |-> fqdn, members |-> members, disabled |-> disabled,
     source |-> source, destination |-> destination]

\* Element.get(key): the attribute's value, None when the element has no such attribute
ElementGet(entry, key) ==
    IF key \in DOMAIN entry.attrib THEN entry.attrib[key] ELSE None

\* a policy rule: uuid and name attributes, <disabled>, <source>, <destination>
Rule(uuid, name, disabled, source, destination) ==
    Entry([name |-> name, uuid |-> uuid], <<>>, <<>>, disabled, source, destination)

\* an address object: name attribute, zero or more <fqdn> children
Address(name, fqdn) == Entry([name |-> name], fqdn, <<>>, None, <<>>, <<>>)

\* an address group: name attribute, <static><member> children
AddressGroup(name, members) == Entry([name |-> name], <<>>, members, None, <<>>, <<>>)

(***************************************************************************)
(* load_config_package                                                     *)
(***************************************************************************)
\* all_device_groups = pan_config.get_device_groups() + ['shared']
AllDeviceGroups == device_group_list \o <<"shared">>
AllDeviceGroupSet == Range(AllDeviceGroups)

\* active_firewalls_per_devicegroup[dg]: a defaultdict(list), left empty with an
\* xml_file, else the firewalls of dg that are active, in the order of dg's list
ActiveFirewallsPerDevicegroup(dg) ==
    IF xml_file \/ dg \notin DOMAIN dgs_and_firewalls
    THEN <<>>
    ELSE SelectSeq(dgs_and_firewalls[dg], LAMBDA fw : fw \in active_firewalls)

\* core.squash_all_devicegroups: dg, then the closure of each of its children
RECURSIVE SquashChildren(_, _)
SquashDevicegroup(dg, fuel) ==
    <<dg>> \o (IF fuel = 0 THEN <<>>
               ELSE SquashChildren(DefaultList(hierarchy_children, dg), fuel - 1))
SquashChildren(kids, fuel) ==
    IF kids = <<>> THEN <<>>
    ELSE SquashDevicegroup(Head(kids), fuel) \o SquashChildren(Tail(kids), fuel)

DevicegroupsToChildDevicegroups ==
    [dg \in AllDeviceGroupSet |-> SquashDevicegroup(dg, Cardinality(Names))]

\* all_active_firewalls_per_devicegroup[dg] += active_firewalls_per_devicegroup[child_dg]
RECURSIVE ConcatActiveFirewalls(_)
ConcatActiveFirewalls(child_dgs) ==
    IF child_dgs = <<>> THEN <<>>
    ELSE ActiveFirewallsPerDevicegroup(Head(child_dgs))
         \o ConcatActiveFirewalls(Tail(child_dgs))

AllActiveFirewallsPerDevicegroup ==
    [dg \in AllDeviceGroupSet |->
        ConcatActiveFirewalls(DevicegroupsToChildDevicegroups[dg])]

\* device_groups without regard to the filter
DeviceGroups_All == AllDeviceGroups

\* device_groups: the filter alone when one is given, else every scope
DeviceGroups == IF device_group # None THEN <<device_group>> ELSE AllDeviceGroups

\* devicegroup_objects[dg][category]: policies are cut to the limit, objects are not;
\* 'shared' and the named device groups are fetched alike from the parsed document
FetchCategory(dg, category) ==
    IF category \in PolicyTypeSet
    THEN SliceLimit(cfg[dg][category], limit)
    ELSE cfg[dg][category]

\* the keys of devicegroup_objects[dg]: the two hierarchy lists and every category
DevicegroupObjectKeys == {"all_child_device_groups", "all_active_child_firewalls"} \cup Categories

DevicegroupObjects ==
    [dg \in AllDeviceGroupSet |->
        [key \in DevicegroupObjectKeys |->
            CASE key = "all_child_device_groups" -> DevicegroupsToChildDevicegroups[dg]
              [] key = "all_active_child_firewalls" -> AllActiveFirewallsPerDevicegroup[dg]
              [] OTHER -> FetchCategory(dg, key)]]

\* entry.get('@uuid'): the entries are XML elements, read elsewhere with
\* entry.get('name'), entry.find and entry.findall; their attributes are 'name' and
\* 'uuid', so the key '@uuid' names none of them
EntryUuid(entry) == ElementGet(entry, "@uuid")

\* the exclusive entries of a device group with a parent
ExclusiveOfChild(entries, parent_entries) ==
    LET parent_policy_uuids == {EntryUuid(e) : e \in Range(parent_entries)}
    IN  SelectSeq(entries, LAMBDA e : EntryUuid(e) \notin parent_policy_uuids)

\* devicegroup_exclusive_objects[dg][policy_type]
ExclusiveObjects(objects, dg, policy_type) ==
    IF dg \notin DOMAIN hierarchy_parent
    THEN objects[dg][policy_type]
    ELSE ExclusiveOfChild(objects[dg][policy_type],
                          objects[hierarchy_parent[dg]][policy_type])

\* the categories devicegroup_exclusive_objects[dg] gets a key for
ExclusiveCategories == PolicyTypeSet

DevicegroupExclusiveObjects(objects) ==
    [dg \in AllDeviceGroupSet |->
        [policy_type \in ExclusiveCategories |-> ExclusiveObjects(objects, dg, policy_type)]]

\* devicegroup_objects[parent_dg] raises KeyError when the recorded parent of a
\* scope is not one of all_device_groups
LoadRaisesKeyError ==
    \E dg \in AllDeviceGroupSet :
        /\ dg \in DOMAIN hierarchy_parent
        /\ hierarchy_parent[dg] \notin AllDeviceGroupSet

\* c.lower() and s.lower()
LowerChar(c) ==
    CASE c = "P" -> "p" [] c = "C" -> "c" [] c = "B" -> "b" [] c = "A" -> "a"
      [] c = "D" -> "d" [] OTHER -> c
Lower(s) == [i \in DOMAIN s |-> LowerChar(s[i])]

\* ignored_dns_prefixes of the package: every configured prefix, lower-cased
IgnoredDnsPrefixes == [i \in DOMAIN ignored_cfg |-> Lower(ignored_cfg[i])]

ProfilePackage ==
    LET objects == DevicegroupObjects
    IN  [device_groups |-> DeviceGroups,
         devicegroup_objects |-> objects,
         devicegroup_exclusive_objects |-> DevicegroupExclusiveObjects(objects),
         device_group_hierarchy_parent |-> hierarchy_parent,
         ignored_dns_prefixes |-> IgnoredDnsPrefixes,
         rule_limit_enabled |-> (limit # NoLimit)]

LoadConfigPackage ==
    /\ phase = "config"
    /\ IF LoadRaisesKeyError
       THEN /\ phase' = "raised"
            /\ pkg' = NoPkg
       ELSE /\ phase' = "loaded"
            /\ pkg' = ProfilePackage
    /\ UNCHANGED <<reportVars, inputVars, items, budget, validatorVars, fixerVars>>

(***************************************************************************)
(* validators/bad_hostnames.py                                             *)
(***************************************************************************)
\* BadEntry(data, text, device_group, entry_type); the text is kept as its parts
BadEntry(data, text, dg, entry_type) ==
    [data |-> data, text |-> text, device_group |-> dg, entry_type |-> entry_type]

\* s.startswith(prefix)
StartsWith(s, prefix) ==
    Len(prefix) <= Len(s) /\ SubSeq(s, 1, Len(prefix)) = prefix

\* any(fqdn_text.startswith(ignored_prefix) for ignored_prefix in ignored_dns_prefixes)
IsIgnoredFqdn(fqdn_text, ignored_dns_prefixes) ==
    \E i \in DOMAIN ignored_dns_prefixes : StartsWith(fqdn_text, ignored_dns_prefixes[i])

\* the resolver: the address of a hostname, None when it does not resolve
DnsLookup(fqdn_text) == IF fqdn_text \in dns THEN "ip" ELSE None

\* core.cached_dns_lookup: the memoized answer of a hostname looked up before,
\* else what the resolver answers now
CachedDnsLookup(fqdn_text) ==
    IF fqdn_text \in DOMAIN dns_cache
    THEN dns_cache[fqdn_text]
    ELSE DnsLookup(fqdn_text)

\* the cache after the given hostnames have been looked up: every answer, a
\* failure included, is memoized; no cached answer is replaced
CacheAfter(lookups) ==
    [h \in (DOMAIN dns_cache) \cup lookups |-> CachedDnsLookup(h)]

\* ignored_dns_prefixes as find_badhostname lower-cases them again
ValidatorIgnoredPrefixes(p) ==
    [i \in DOMAIN p.ignored_dns_prefixes |-> Lower(p.ignored_dns_prefixes[i])]

\* the text of a find_badhostname Finding
AddressText(dg, entry_name, fqdn_text) ==
    [subject |-> "address", device_group |-> dg, name |-> entry_name,
     direction |-> None, detail |-> fqdn_text]

\* the same without lower-casing the hostname
FqdnNodeFindings_NoLower(p, dg, entry, fqdn) ==
    IF IsIgnoredFqdn(fqdn, ValidatorIgnoredPrefixes(p))
    THEN <<>>
    ELSE IF CachedDnsLookup(fqdn) = None
         THEN <<BadEntry(entry, AddressText(dg, ElementGet(entry, "name"), fqdn),
                         dg, "Addresses")>>
         ELSE <<>>

\* the same asking the resolver instead of the lookup cache
FqdnNodeFindings_DirectLookup(p, dg, entry, fqdn) ==
    LET fqdn_text == Lower(fqdn)
    IN  IF IsIgnoredFqdn(fqdn_text, ValidatorIgnoredPrefixes(p))
        THEN <<>>
        ELSE IF DnsLookup(fqdn_text) = None
             THEN <<BadEntry(entry, AddressText(dg, ElementGet(entry, "name"), fqdn_text),
                             dg, "Addresses")>>
             ELSE <<>>

\* the body of `for fqdn_node in entry.findall('fqdn')` for one node: an ignored
\* hostname is skipped; an unresolved one appends a Finding
FqdnNodeFindings(p, dg, entry, fqdn) ==
    LET fqdn_text == Lower(fqdn)
    IN  IF IsIgnoredFqdn(fqdn_text, ValidatorIgnoredPrefixes(p))
        THEN <<>>
        ELSE IF CachedDnsLookup(fqdn_text) = None
             THEN <<BadEntry(entry, AddressText(dg, ElementGet(entry, "name"), fqdn_text),
                             dg, "Addresses")>>
             ELSE <<>>

RECURSIVE EntryFqdnFindings(_, _, _, _)
EntryFqdnFindings(p, dg, entry, fqdns) ==
    IF fqdns = <<>> THEN <<>>
    ELSE FqdnNodeFindings(p, dg, entry, Head(fqdns))
         \o EntryFqdnFindings(p, dg, entry, Tail(fqdns))

RECURSIVE AddressesFindings(_, _, _)
AddressesFindings(p, dg, entries) ==
    IF entries = <<>> THEN <<>>
    ELSE EntryFqdnFindings(p, dg, Head(entries), Head(entries).fqdn)
         \o AddressesFindings(p, dg, Tail(entries))

RECURSIVE BadHostnameOver(_, _)
BadHostnameOver(p, dgs) ==
    IF dgs = <<>> THEN <<>>
    ELSE AddressesFindings(p, Head(dgs), p.devicegroup_objects[Head(dgs)]["Addresses"])
         \o BadHostnameOver(p, Tail(dgs))

\* find_badhostname(profilepackage)
FindBadHostnameResult(p) == BadHostnameOver(p, p.device_groups)

\* the hostnames find_badhostname hands to cached_dns_lookup: the lower-cased fqdn
\* of every address of the device groups of the run that no prefix makes it skip
BadHostnameLookups(p) ==
    LET addresses == UNION {Range(p.devicegroup_objects[dg]["Addresses"]) :
                                dg \in Range(p.device_groups)}
        fqdn_texts == {Lower(f) : f \in UNION {Range(e.fqdn) : e \in addresses}}
    IN  {h \in fqdn_texts : ~IsIgnoredFqdn(h, ValidatorIgnoredPrefixes(p))}

\* one call of find_badhostname(profilepackage)
FindBadHostnameCall ==
    /\ bh_result' = FindBadHostnameResult(pkg)
    /\ bh_lookups' = bh_lookups \cup BadHostnameLookups(pkg)
    /\ dns_cache' = CacheAfter(BadHostnameLookups(pkg))
    /\ ran' = ran \cup {"BadHostname"}
    /\ reran' = reran \cup (ran \cap {"BadHostname"})
    /\ UNCHANGED usage_result

FindBadHostname ==
    /\ phase = "loaded"
    /\ FindBadHostnameCall
    /\ UNCHANGED <<reportVars, inputVars, items, budget, loadVars, fixerVars>>

\* bad_address_objects of find_badhostnameusage: the names of the entries of the
\* Findings of the BadHostname validator
BadAddressObjects(bad_hostname_results) ==
    {ElementGet(bad_hostname_results[i].data, "name") : i \in DOMAIN bad_hostname_results}

\* sorted(names) over the names of the model
NameOrder == <<"any", "h1", "h2">>
Sorted(names) == SelectSeq(NameOrder, LAMBDA n : n \in names)

UsageText(subject, dg, entry_name, direction, bad_members) ==
    [subject |-> subject, device_group |-> dg, name |-> entry_name,
     direction |-> direction, detail |-> Sorted(bad_members)]

\* one address group: a Finding when its static members meet the bad addresses
AddressGroupFindings(bad, dg, entry) ==
    LET bad_members == bad \cap Range(entry.members)
    IN  IF bad_members # {}
        THEN <<BadEntry(entry,
                        UsageText("Address Group", dg, ElementGet(entry, "name"), None,
                                  bad_members),
                        dg, "AddressGroups")>>
        ELSE <<>>

RECURSIVE AddressGroupsFindings(_, _, _)
AddressGroupsFindings(bad, dg, entries) ==
    IF entries = <<>> THEN <<>>
    ELSE AddressGroupFindings(bad, dg, Head(entries))
         \o AddressGroupsFindings(bad, dg, Tail(entries))

RECURSIVE GroupUsageOver(_, _, _)
GroupUsageOver(p, bad, dgs) ==
    IF dgs = <<>> THEN <<>>
    ELSE AddressGroupsFindings(bad, Head(dgs),
                               p.devicegroup_objects[Head(dgs)]["AddressGroups"])
         \o GroupUsageOver(p, bad, Tail(dgs))

\* the same test against another literal
IsDisabled_WrongLiteral(entry) == entry.disabled # None /\ entry.disabled = "true"

\* entry.find("./disabled") is not None and entry.find("./disabled").text == "yes"
IsDisabled(entry) == entry.disabled # None /\ entry.disabled = "yes"

\* one direction of one rule
DirectionFindings(bad, dg, ruletype, entry, members, direction) ==
    LET bad_members == bad \cap members
    IN  IF bad_members # {}
        THEN <<BadEntry(entry,
                        UsageText(ruletype, dg, ElementGet(entry, "name"), direction,
                                  bad_members),
                        dg, ruletype)>>
        ELSE <<>>

\* the same checking the sources only
RuleFindings_SourceOnly(bad, dg, ruletype, entry) ==
    IF entry.disabled # None /\ entry.disabled = "yes"
    THEN <<>>
    ELSE LET bad_members == bad \cap Range(entry.source)
         IN  IF bad_members # {}
             THEN <<BadEntry(entry,
                             UsageText(ruletype, dg, ElementGet(entry, "name"), "Source",
                                       bad_members),
                             dg, ruletype)>>
             ELSE <<>>

\* one rule: disabled rules are skipped, the others checked Source first, then Dest
RuleFindings(bad, dg, ruletype, entry) ==
    IF IsDisabled(entry)
    THEN <<>>
    ELSE DirectionFindings(bad, dg, ruletype, entry, Range(entry.source), "Source")
         \o DirectionFindings(bad, dg, ruletype, entry, Range(entry.destination), "Dest")

RECURSIVE RulesFindings(_, _, _, _)
RulesFindings(bad, dg, ruletype, rules) ==
    IF rules = <<>> THEN <<>>
    ELSE RuleFindings(bad, dg, ruletype, Head(rules))
         \o RulesFindings(bad, dg, ruletype, Tail(rules))

\* the rules find_badhostnameusage walks for a device group and rule type
UsageRules(p, dg, ruletype) == p.devicegroup_exclusive_objects[dg][ruletype]

USAGE_RULETYPES == <<"SecurityPreRules", "SecurityPostRules">>

RECURSIVE RuleTypesOver(_, _, _, _)
RuleTypesOver(p, bad, dg, ruletypes) ==
    IF ruletypes = <<>> THEN <<>>
    ELSE RulesFindings(bad, dg, Head(ruletypes), UsageRules(p, dg, Head(ruletypes)))
         \o RuleTypesOver(p, bad, dg, Tail(ruletypes))

RECURSIVE RuleUsageOver(_, _, _)
RuleUsageOver(p, bad, dgs) ==
    IF dgs = <<>> THEN <<>>
    ELSE RuleTypesOver(p, bad, Head(dgs), USAGE_RULETYPES)
         \o RuleUsageOver(p, bad, Tail(dgs))

\* find_badhostnameusage(profilepackage): it invokes the BadHostname validator, then
\* walks the address groups of every device group, then the rules
FindBadHostnameUsageResult(p) ==
    LET bad == BadAddressObjects(FindBadHostnameResult(p))
    IN  GroupUsageOver(p, bad, p.device_groups) \o RuleUsageOver(p, bad, p.device_groups)

\* one call of find_badhostnameusage(profilepackage)
FindBadHostnameUsageCall ==
    /\ usage_result' = FindBadHostnameUsageResult(pkg)
    /\ bh_lookups' = bh_lookups \cup BadHostnameLookups(pkg)
    /\ dns_cache' = CacheAfter(BadHostnameLookups(pkg))
    /\ ran' = ran \cup {"BadHostnameUsage"}
    /\ reran' = reran \cup (ran \cap {"BadHostnameUsage"})
    /\ UNCHANGED bh_result

FindBadHostnameUsage ==
    /\ phase = "loaded"
    /\ FindBadHostnameUsageCall
    /\ UNCHANGED <<reportVars, inputVars, items, budget, loadVars, fixerVars>>

(***************************************************************************)
(* fixers/consolidate_equivalent_objects.py                                *)
(***************************************************************************)
RemoteCall(api, payload, category, dg) ==
    [api |-> api, payload |-> payload, category |-> category, device_group |-> dg]

\* pan_api.validate_commit(panorama, api_key)
ValidateCommitCall == RemoteCall("validate_commit", None, None, None)

\* the same with every supported category sent through the object API
DispatchCall_ObjectApiOnly(badentry) ==
    IF badentry.entry_type \in ObjectTypeSet \cup PolicyTypeSet
    THEN <<RemoteCall("update_devicegroup_object", badentry.data[2],
                      badentry.entry_type, badentry.device_group)>>
    ELSE <<>>

\* the body of `for badentry in badentries_needing_consolidation`: the remote calls
\* it makes for one Finding; a category of neither kind falls through both tests
DispatchCall(badentry) ==
    LET object_policy_dict == badentry.data[2]
        object_policy_dg == badentry.device_group
        object_policy_type == badentry.entry_type
    IN  IF object_policy_type \in ObjectTypeSet
        THEN <<RemoteCall("update_devicegroup_object", object_policy_dict,
                          object_policy_type, object_policy_dg)>>
        ELSE IF object_policy_type \in PolicyTypeSet
             THEN <<RemoteCall("update_devicegroup_policy", object_policy_dict,
                               object_policy_type, object_policy_dg)>>
             ELSE <<>>

\* the same never taking the early return
NoConsolidationNeeded_Never(badentries) == FALSE

\* `if not badentries_needing_consolidation`
NoConsolidationNeeded(badentries) == badentries = <<>>

\* where the for loop goes after the Finding at index i
AfterFinding(i) ==
    IF i < Len(validator_findings)
    THEN [fpc |-> "loop", fidx |-> i + 1]
    ELSE [fpc |-> "validate", fidx |-> i + 1]

\* the same with the exception swallowed and the loop going on
AfterFailedUpdate_Swallowed(i) == AfterFinding(i)

\* an update call that raises is not caught: the exception leaves the fixer
AfterFailedUpdate(i) == [fpc |-> "raised", fidx |-> i]

\* the remote call about to be issued is the one that raises
NextCallRaises == fail_at = Len(trace) + 1

\* validator_function(profilepackage), then the early return on no Findings
FixerStart ==
    /\ fpc = "idle"
    /\ IF NoConsolidationNeeded(validator_findings)
       THEN /\ fpc' = "done"
            /\ fresult' = validator_findings
       ELSE /\ fpc' = IF validator_findings = <<>> THEN "validate" ELSE "loop"
            /\ fresult' = fresult
    /\ UNCHANGED <<reportVars, inputVars, items, budget, loadVars, validatorVars,
                   validator_findings, fail_at, fidx, trace>>

\* one round of the for loop whose remote call, if it makes one, returns
FixerUpdate ==
    /\ fpc = "loop"
    /\ LET calls == DispatchCall(validator_findings[fidx])
       IN  /\ calls = <<>> \/ ~NextCallRaises
           /\ trace' = trace \o calls
           /\ fpc' = AfterFinding(fidx).fpc
           /\ fidx' = AfterFinding(fidx).fidx
    /\ UNCHANGED <<reportVars, inputVars, items, budget, loadVars, validatorVars,
                   validator_findings, fail_at, fresult>>

\* one round of the for loop whose remote call raises
FixerUpdateRaises ==
    /\ fpc = "loop"
    /\ LET calls == DispatchCall(validator_findings[fidx])
       IN  /\ calls # <<>> /\ NextCallRaises
           /\ trace' = trace \o calls
           /\ fpc' = AfterFailedUpdate(fidx).fpc
           /\ fidx' = AfterFailedUpdate(fidx).fidx
    /\ UNCHANGED <<reportVars, inputVars, items, budget, loadVars, validatorVars,
                   validator_findings, fail_at, fresult>>

\* pan_api.validate_commit returns; the fixer returns the Findings
FixerValidateCommit ==
    /\ fpc = "validate"
    /\ ~NextCallRaises
    /\ trace' = Append(trace, ValidateCommitCall)
    /\ fpc' = "done"
    /\ fresult' = validator_findings
    /\ UNCHANGED <<reportVars, inputVars, items, budget, loadVars, validatorVars,
                   validator_findings, fail_at, fidx>>

\* pan_api.validate_commit raises
FixerValidateCommitRaises ==
    /\ fpc = "validate"
    /\ NextCallRaises
    /\ trace' = Append(trace, ValidateCommitCall)
    /\ fpc' = "raised"
    /\ UNCHANGED <<reportVars, inputVars, items, budget, loadVars, validatorVars,
                   validator_findings, fail_at, fidx, fresult>>

(***************************************************************************)
(* run_policy_validators and write_validator_output (pan_policy_validator) *)
(***************************************************************************)
\* get_policy_validators(): the registered validators, by name
PolicyValidatorNames == {"BadHostname", "BadHostnameUsage"}

\* the description a validator is registered with
ValidatorDescription(name) ==
    CASE name = "BadHostname" -> "Address contains a hostname that doesn't resolve"
      [] name = "BadHostnameUsage" ->
            "AddresGroups and Security Rules using Address objects which don't resolve"

\* validator_values of a registered validator, its function apart
ValidatorInfo(name) == <<name, ValidatorDescription(name)>>

\* validator_function(profilepackage)
ValidatorFunction(name, p) ==
    CASE name = "BadHostname" -> FindBadHostnameResult(p)
      [] name = "BadHostnameUsage" -> FindBadHostnameUsageResult(p)

\* d[key] = value on a dict kept as pairs in insertion order
DictSet(d, key, value) ==
    IF \E i \in DOMAIN d : d[i][1] = key
    THEN [i \in DOMAIN d |-> IF d[i][1] = key THEN <<key, value>> ELSE d[i]]
    ELSE Append(d, <<key, value>>)

\* fh.write("#" * 80 + '\n')
RuleLine == [kind |-> "rule"]

\* fh.write(f"{validator_name}: {validator_description} ({len(problem_entries)})\n")
HeaderLine(validator_info, problem_entries) ==
    [kind |-> "header", name |-> validator_info[1], description |-> validator_info[2],
     count |-> Len(problem_entries)]

\* the same lines, the last Finding first
TextLines_Reversed(problem_entries) ==
    [i \in DOMAIN problem_entries |->
        [kind |-> "text", text |-> problem_entries[Len(problem_entries) + 1 - i].text]]

\* fh.write(problem_entry.text + '\n') for every problem_entry
TextLines(problem_entries) ==
    [i \in DOMAIN problem_entries |-> [kind |-> "text", text |-> problem_entries[i].text]]

\* fh.write('\n')
BlankLine == [kind |-> "blank"]

\* what the body of `for validator_info, problem_entries in problems.items()` writes
SectionLines(validator_info, problem_entries) ==
    <<RuleLine, HeaderLine(validator_info, problem_entries), RuleLine>>
    \o TextLines(problem_entries) \o <<BlankLine>>

RECURSIVE WriteProblems(_)
WriteProblems(d) ==
    IF d = <<>> THEN <<>>
    ELSE SectionLines(Head(d)[1], Head(d)[2]) \o WriteProblems(Tail(d))

\* sequences of distinct registered validators: the dict main builds from --validator
RECURSIVE Orderings(_)
Orderings(names) ==
    IF names = {} THEN {<<>>}
    ELSE UNION {{<<n>> \o rest : rest \in Orderings(names \ {n})} : n \in names}
ValidatorSelections == UNION {Orderings(chosen) : chosen \in SUBSET PolicyValidatorNames} \ {<<>>}

\* main: the validators dict is built, the snapshot is loaded, run_policy_validators
\* is entered
RunPolicyValidatorsStart(selection) ==
    /\ phase = "loaded"
    /\ rpc = "idle"
    /\ validators' = selection
    /\ problems' = <<>>
    /\ total_problems' = 0
    /\ ridx' = 1
    /\ rpc' = "running"
    /\ UNCHANGED <<inputVars, items, budget, loadVars, validatorVars, fixerVars,
                   returned, output>>

\* one pass of `for name, validator_values in validators.items()`
RunValidator ==
    /\ rpc = "running"
    /\ ridx <= Len(validators)
    /\ LET name == validators[ridx]
           validator_problems == ValidatorFunction(name, pkg)
       IN  /\ IF name = "BadHostname" THEN FindBadHostnameCall ELSE FindBadHostnameUsageCall
           /\ problems' = DictSet(problems, ValidatorInfo(name), validator_problems)
           /\ total_problems' = total_problems + Len(validator_problems)
           /\ returned' = Append(returned, <<name, validator_problems>>)
    /\ ridx' = ridx + 1
    /\ UNCHANGED <<inputVars, items, budget, loadVars, fixerVars, validators, rpc, output>>

\* run_policy_validators returns; write_validator_output(problems, output_fname, 'text')
WriteValidatorOutput ==
    /\ rpc = "running"
    /\ ridx > Len(validators)
    /\ output' = WriteProblems(problems)
    /\ rpc' = "written"
    /\ UNCHANGED <<inputVars, items, budget, loadVars, validatorVars, fixerVars,
                   validators, ridx, problems, total_problems, returned>>

(***************************************************************************)
(* The configuration the program is run on                                 *)
(***************************************************************************)
EmptyCfg == [dg \in Names |-> [category \in Categories |-> <<>>]]

CanAdd == phase = "config" /\ items < budget

\* a further device group in the configuration
ConfigAddDeviceGroup ==
    /\ CanAdd
    /\ "B" \notin Range(device_group_list)
    /\ device_group_list' = Append(device_group_list, "B")
    /\ items' = items + 1 /\ UNCHANGED budget
    /\ UNCHANGED <<reportVars, xml_file, device_group, limit, hierarchy_parent, hierarchy_children,
                   dgs_and_firewalls, active_firewalls, cfg, ignored_cfg, dns,
                   loadVars, validatorVars, fixerVars>>

\* the configuration is read from an exported file instead of the API
ConfigUseXmlFile ==
    /\ CanAdd
    /\ ~xml_file
    /\ xml_file' = TRUE
    /\ items' = items + 1 /\ UNCHANGED budget
    /\ UNCHANGED <<reportVars, device_group, limit, device_group_list, hierarchy_parent,
                   hierarchy_children, dgs_and_firewalls, active_firewalls, cfg,
                   ignored_cfg, dns, loadVars, validatorVars, fixerVars>>

\* --device-group
ConfigSetDeviceGroup(dg) ==
    /\ CanAdd
    /\ device_group = None
    /\ dg \in AllDeviceGroupSet
    /\ device_group' = dg
    /\ items' = items + 1 /\ UNCHANGED budget
    /\ UNCHANGED <<reportVars, xml_file, limit, device_group_list, hierarchy_parent,
                   hierarchy_children, dgs_and_firewalls, active_firewalls, cfg,
                   ignored_cfg, dns, loadVars, validatorVars, fixerVars>>

\* --limit
ConfigSetLimit(n) ==
    /\ CanAdd
    /\ limit = NoLimit
    /\ limit' = n
    /\ items' = items + 1 /\ UNCHANGED budget
    /\ UNCHANGED <<reportVars, xml_file, device_group, device_group_list, hierarchy_parent,
                   hierarchy_children, dgs_and_firewalls, active_firewalls, cfg,
                   ignored_cfg, dns, loadVars, validatorVars, fixerVars>>

\* the hierarchy records p as the parent of dg
ConfigSetParent(dg, p) ==
    /\ CanAdd
    /\ dg # "shared" /\ p # dg
    /\ dg \notin DOMAIN hierarchy_parent
    /\ ~(p \in DOMAIN hierarchy_parent /\ hierarchy_parent[p] = dg)
    /\ hierarchy_parent' = Put(hierarchy_parent, dg, p)
    /\ items' = items + 1 /\ UNCHANGED budget
    /\ UNCHANGED <<reportVars, xml_file, device_group, limit, device_group_list,
                   hierarchy_children, dgs_and_firewalls, active_firewalls, cfg,
                   ignored_cfg, dns, loadVars, validatorVars, fixerVars>>

\* the hierarchy records c as a child of p
ConfigAddChild(p, c) ==
    /\ CanAdd
    /\ c # "shared" /\ p # c
    /\ c \notin Range(DefaultList(hierarchy_children, p))
    /\ p \notin Range(DefaultList(hierarchy_children, c))
    /\ hierarchy_children' = Put(hierarchy_children, p,
                                 Append(DefaultList(hierarchy_children, p), c))
    /\ items' = items + 1 /\ UNCHANGED budget
    /\ UNCHANGED <<reportVars, xml_file, device_group, limit, device_group_list, hierarchy_parent,
                   dgs_and_firewalls, active_firewalls, cfg, ignored_cfg, dns,
                   loadVars, validatorVars, fixerVars>>

\* a firewall is a member of a device group
ConfigAddFirewall(dg, fw) ==
    /\ CanAdd
    /\ fw \notin Range(DefaultList(dgs_and_firewalls, dg))
    /\ dgs_and_firewalls' = Put(dgs_and_firewalls, dg,
                                Append(DefaultList(dgs_and_firewalls, dg), fw))
    /\ items' = items + 1 /\ UNCHANGED budget
    /\ UNCHANGED <<reportVars, xml_file, device_group, limit, device_group_list, hierarchy_parent,
                   hierarchy_children, active_firewalls, cfg, ignored_cfg, dns,
                   loadVars, validatorVars, fixerVars>>

\* a firewall is connected
ConfigActivateFirewall(fw) ==
    /\ CanAdd
    /\ fw \notin active_firewalls
    /\ active_firewalls' = active_firewalls \cup {fw}
    /\ items' = items + 1 /\ UNCHANGED budget
    /\ UNCHANGED <<reportVars, xml_file, device_group, limit, device_group_list, hierarchy_parent,
                   hierarchy_children, dgs_and_firewalls, cfg, ignored_cfg, dns,
                   loadVars, validatorVars, fixerVars>>

\* an entry is appended to a scope's category
ConfigAddEntry(dg, category, entry) ==
    /\ CanAdd
    /\ dg \in AllDeviceGroupSet
    /\ cfg' = [cfg EXCEPT ![dg][category] = Append(@, entry)]
    /\ items' = items + 1 /\ UNCHANGED budget
    /\ UNCHANGED <<reportVars, xml_file, device_group, limit, device_group_list, hierarchy_parent,
                   hierarchy_children, dgs_and_firewalls, active_firewalls,
                   ignored_cfg, dns, loadVars, validatorVars, fixerVars>>

Firewalls == {"fw1", "fw2"}
LimitValues == {0, 1}
Uuids == {"u1", "u2"}
RuleNames == {"x", "y"}

\* the rules and objects the hierarchy resolution is exercised with
LoadRules == {Rule(u, n, None, <<"any">>, <<"any">>) : u \in Uuids, n \in RuleNames}
LoadObjects == {Address("h1", <<>>)}

InitInputs ==
    /\ xml_file = FALSE
    /\ device_group = None
    /\ limit = NoLimit
    /\ device_group_list = <<"A">>
    /\ hierarchy_parent = EmptyMap
    /\ hierarchy_children = EmptyMap
    /\ dgs_and_firewalls = EmptyMap
    /\ active_firewalls = {}
    /\ cfg = EmptyCfg
    /\ ignored_cfg = <<>>
    /\ items = 0

InitReport ==
    /\ validators = <<>>
    /\ rpc = "idle"
    /\ ridx = 1
    /\ problems = <<>>
    /\ total_problems = 0
    /\ returned = <<>>
    /\ output = <<>>

InitProgram ==
    /\ phase = "config"
    /\ pkg = NoPkg
    /\ ran = {}
    /\ reran = {}
    /\ dns_cache = EmptyMap
    /\ bh_result = <<>>
    /\ bh_lookups = {}
    /\ usage_result = <<>>
    /\ validator_findings = <<>>
    /\ fail_at = 0
    /\ fpc = "idle"
    /\ fidx = 1
    /\ trace = <<>>
    /\ fresult = <<>>
    /\ InitReport

Init ==
    /\ InitInputs
    /\ InitProgram
    /\ dns = {}
    /\ budget = MaxItems

Next ==
    \/ ConfigAddDeviceGroup
    \/ ConfigUseXmlFile
    \/ \E dg \in Names : ConfigSetDeviceGroup(dg)
    \/ \E n \in LimitValues : ConfigSetLimit(n)
    \/ \E dg \in Names, p \in Names : ConfigSetParent(dg, p)
    \/ \E p \in Names, c \in Names : ConfigAddChild(p, c)
    \/ \E dg \in Names, fw \in Firewalls : ConfigAddFirewall(dg, fw)
    \/ \E fw \in Firewalls : ConfigActivateFirewall(fw)
    \/ \E dg \in Names, pt \in PolicyTypeSet, r \in LoadRules : ConfigAddEntry(dg, pt, r)
    \/ \E dg \in Names, ot \in ObjectTypeSet, o \in LoadObjects : ConfigAddEntry(dg, ot, o)
    \/ LoadConfigPackage

Spec == Init /\ [][Next]_vars

(***************************************************************************)
(* The configurations the firewall lists are exercised with                *)
(***************************************************************************)
\* device group A is a child of 'shared'; firewalls are added to the scopes
FirewallInit ==
    /\ xml_file = FALSE
    /\ device_group = None
    /\ limit = NoLimit
    /\ device_group_list = <<"A">>
    /\ hierarchy_parent = [dg \in {"A"} |-> "shared"]
    /\ hierarchy_children = [dg \in {"shared"} |-> <<"A">>]
    /\ dgs_and_firewalls = EmptyMap
    /\ active_firewalls = {}
    /\ cfg = EmptyCfg
    /\ ignored_cfg = <<>>
    /\ items = 0
    /\ InitProgram
    /\ dns = {}
    /\ budget = MaxItems

FirewallNext ==
    \/ ConfigAddDeviceGroup
    \/ ConfigUseXmlFile
    \/ \E p \in Names, c \in Names : ConfigAddChild(p, c)
    \/ \E dg \in Names, fw \in Firewalls : ConfigAddFirewall(dg, fw)
    \/ \E fw \in Firewalls : ConfigActivateFirewall(fw)
    \/ LoadConfigPackage

FirewallSpec == FirewallInit /\ [][FirewallNext]_vars

(***************************************************************************)
(* The configurations the hostname validators are exercised with           *)
(***************************************************************************)
\* hostnames, as their characters
HBad == <<"b", "a", "d">>
HBadUpper == <<"B", "A", "D">>
HOk == <<"o", "k">>
HPc == <<"P", "c">>

\* 'Ignored DNS Prefixes = PC'
IgnoredPrefixChoices == {<<"P", "C">>}

ConfigIgnorePrefix(prefix) ==
    /\ CanAdd
    /\ prefix \notin Range(ignored_cfg)
    /\ ignored_cfg' = Append(ignored_cfg, prefix)
    /\ items' = items + 1 /\ UNCHANGED budget
    /\ UNCHANGED <<reportVars, xml_file, device_group, limit, device_group_list, hierarchy_parent,
                   hierarchy_children, dgs_and_firewalls, active_firewalls, cfg, dns,
                   loadVars, validatorVars, fixerVars>>

HostAddresses ==
    {Address("h1", f) : f \in {<<HBad>>, <<HOk>>, <<HPc>>, <<HBad, HBadUpper>>, <<HPc, HBad>>}}
    \cup {Address("h2", <<HBad>>)}
HostAddressGroups == {AddressGroup("g1", <<"h2", "h1">>)}
HostRules ==
    {Rule("u1", "r1", "no", <<"any">>, <<"h1">>),
     Rule("u1", "r1", None, <<"h1">>, <<"h2", "h1">>),
     Rule("u1", "r1", "yes", <<"h1">>, <<"h2", "h1">>)}

\* device group A below shared; "ok" resolves, nothing else does
HostInit ==
    /\ xml_file = FALSE
    /\ device_group = None
    /\ limit = NoLimit
    /\ device_group_list = <<"A">>
    /\ hierarchy_parent = [dg \in {"A"} |-> "shared"]
    /\ hierarchy_children = [dg \in {"shared"} |-> <<"A">>]
    /\ dgs_and_firewalls = EmptyMap
    /\ active_firewalls = {}
    /\ cfg = EmptyCfg
    /\ ignored_cfg = <<>>
    /\ items = 0
    /\ InitProgram
    /\ dns = {HOk}
    /\ budget = MaxHostItems

HostNext ==
    \/ \E dg \in Names : ConfigSetDeviceGroup(dg)
    \/ \E prefix \in IgnoredPrefixChoices : ConfigIgnorePrefix(prefix)
    \/ \E dg \in Names, a \in HostAddresses : ConfigAddEntry(dg, "Addresses", a)
    \/ \E dg \in Names, g \in HostAddressGroups : ConfigAddEntry(dg, "AddressGroups", g)
    \/ \E dg \in Names, pt \in PolicyTypeSet, r \in HostRules : ConfigAddEntry(dg, pt, r)
    \/ LoadConfigPackage
    \/ FindBadHostname
    \/ FindBadHostnameUsage

HostSpec == HostInit /\ [][HostNext]_vars

(***************************************************************************)
(* The hostname validators run again and again while the resolver changes  *)
(***************************************************************************)
RerunHostnames == {HBad, HOk}
RerunAddresses ==
    {Address("h1", <<HBad>>), Address("h1", <<HOk>>), Address("h2", <<HOk, HBad>>)}
RerunRules == {Rule("u1", "r1", None, <<"h1">>, <<"h2", "h1">>)}

\* a hostname starts or stops resolving; what was run again before does not count
\* as run again under the new answers
DnsChange(h) ==
    /\ phase = "loaded"
    /\ dns' = IF h \in dns THEN dns \ {h} ELSE dns \cup {h}
    /\ reran' = {}
    /\ UNCHANGED <<reportVars, xml_file, device_group, limit, device_group_list, hierarchy_parent,
                   hierarchy_children, dgs_and_firewalls, active_firewalls, cfg,
                   ignored_cfg, items, budget, loadVars, ran, dns_cache, bh_result,
                   bh_lookups, usage_result, fixerVars>>

RerunInit ==
    /\ xml_file = FALSE
    /\ device_group = None
    /\ limit = NoLimit
    /\ device_group_list = <<"A">>
    /\ hierarchy_parent = [dg \in {"A"} |-> "shared"]
    /\ hierarchy_children = [dg \in {"shared"} |-> <<"A">>]
    /\ dgs_and_firewalls = EmptyMap
    /\ active_firewalls = {}
    /\ cfg = EmptyCfg
    /\ ignored_cfg = <<>>
    /\ items = 0
    /\ InitProgram
    /\ dns = {HOk}
    /\ budget = MaxRerunItems

RerunNext ==
    \/ \E dg \in Names : ConfigSetDeviceGroup(dg)
    \/ \E dg \in Names, a \in RerunAddresses : ConfigAddEntry(dg, "Addresses", a)
    \/ \E dg \in Names, g \in HostAddressGroups : ConfigAddEntry(dg, "AddressGroups", g)
    \/ \E dg \in Names, pt \in PolicyTypeSet, r \in RerunRules : ConfigAddEntry(dg, pt, r)
    \/ LoadConfigPackage
    \/ FindBadHostname
    \/ FindBadHostnameUsage
    \/ \E h \in RerunHostnames : DnsChange(h)

RerunSpec == RerunInit /\ [][RerunNext]_vars

(***************************************************************************)
(* The configurations loaded and validated under a device-group filter     *)
(***************************************************************************)
FilterAddresses == {Address("h1", <<HBad>>), Address("h2", <<HBad>>), Address("h1", <<HOk>>)}
FilterRules == {Rule("u1", "r1", None, <<"h1">>, <<"h2", "h1">>)}

\* device group A below shared; --device-group names one of the two
FilterInit ==
    /\ xml_file = FALSE
    /\ device_group \in {"A", "shared"}
    /\ limit = NoLimit
    /\ device_group_list = <<"A">>
    /\ hierarchy_parent = [dg \in {"A"} |-> "shared"]
    /\ hierarchy_children = [dg \in {"shared"} |-> <<"A">>]
    /\ dgs_and_firewalls = EmptyMap
    /\ active_firewalls = {}
    /\ cfg = EmptyCfg
    /\ ignored_cfg = <<>>
    /\ items = 0
    /\ InitProgram
    /\ dns = {HOk}
    /\ budget = MaxFilterItems

FilterNext ==
    \/ \E dg \in Names, a \in FilterAddresses : ConfigAddEntry(dg, "Addresses", a)
    \/ \E dg \in Names, g \in HostAddressGroups : ConfigAddEntry(dg, "AddressGroups", g)
    \/ \E dg \in Names, pt \in PolicyTypeSet, r \in FilterRules : ConfigAddEntry(dg, pt, r)
    \/ LoadConfigPackage
    \/ FindBadHostname
    \/ FindBadHostnameUsage

FilterSpec == FilterInit /\ [][FilterNext]_vars

(***************************************************************************)
(* The configurations the report is written for                            *)
(***************************************************************************)
ReportAddresses == {Address("h1", <<HBad>>), Address("h2", <<HBad>>), Address("h2", <<HOk>>)}
ReportRules == {Rule("u1", "r1", None, <<"h1">>, <<"h2", "h1">>)}

ReportInit ==
    /\ xml_file = FALSE
    /\ device_group = None
    /\ limit = NoLimit
    /\ device_group_list = <<"A">>
    /\ hierarchy_parent = [dg \in {"A"} |-> "shared"]
    /\ hierarchy_children = [dg \in {"shared"} |-> <<"A">>]
    /\ dgs_and_firewalls = EmptyMap
    /\ active_firewalls = {}
    /\ cfg = EmptyCfg
    /\ ignored_cfg = <<>>
    /\ items = 0
    /\ InitProgram
    /\ dns = {HOk}
    /\ budget = MaxReportItems

ReportNext ==
    \/ \E dg \in Names : ConfigSetDeviceGroup(dg)
    \/ \E dg \in Names, a \in ReportAddresses : ConfigAddEntry(dg, "Addresses", a)
    \/ \E dg \in Names, g \in HostAddressGroups : ConfigAddEntry(dg, "AddressGroups", g)
    \/ \E dg \in Names, pt \in PolicyTypeSet, r \in ReportRules : ConfigAddEntry(dg, pt, r)
    \/ LoadConfigPackage
    \/ \E selection \in ValidatorSelections : RunPolicyValidatorsStart(selection)
    \/ RunValidator
    \/ WriteValidatorOutput

ReportSpec == ReportInit /\ [][ReportNext]_vars

(***************************************************************************)
(* The Findings the consolidation fixer is exercised with                  *)
(***************************************************************************)
\* an entry_type that is neither a supported object nor a supported policy category
UnsupportedType == "Tags"
FindingTypes == {"Addresses", "SecurityPreRules", UnsupportedType}
FindingScopes == {"A", "shared"}

\* a Finding of an equivalence validator: data is (entry, replacement dict)
ConsolidationFinding(dg, entry_type) ==
    BadEntry(<<Address("h1", <<>>), <<"dict", dg, entry_type>>>>,
             [subject |-> "consolidate", device_group |-> dg, name |-> "h1",
              direction |-> None, detail |-> <<>>],
             dg, entry_type)

ConsolidationFindings ==
    {ConsolidationFinding(dg, t) : dg \in FindingScopes, t \in FindingTypes}

FixInit ==
    /\ InitInputs
    /\ dns = {}
    /\ budget = 0
    /\ phase = "config"
    /\ pkg = NoPkg
    /\ ran = {}
    /\ reran = {}
    /\ dns_cache = EmptyMap
    /\ bh_result = <<>>
    /\ bh_lookups = {}
    /\ usage_result = <<>>
    /\ validator_findings \in UNION {[1..n -> ConsolidationFindings] : n \in 0..MaxFindings}
    /\ fail_at \in 0..(MaxFindings + 1)
    /\ fpc = "idle"
    /\ fidx = 1
    /\ trace = <<>>
    /\ fresult = <<>>
    /\ InitReport

FixNext ==
    \/ FixerStart
    \/ FixerUpdate
    \/ FixerUpdateRaises
    \/ FixerValidateCommit
    \/ FixerValidateCommitRaises

FixSpec == FixInit /\ [][FixNext]_vars

(***************************************************************************)
(* Claims about load_config_package                                        *)
(***************************************************************************)
Loaded == phase = "loaded"
AllEntries(dg, category) == pkg.devicegroup_objects[dg][category]
ActiveChildFirewalls(dg) == pkg.devicegroup_objects[dg]["all_active_child_firewalls"]
HasExclusive(dg, category) == category \in DOMAIN pkg.devicegroup_exclusive_objects[dg]
ExclusiveEntries(dg, category) == pkg.devicegroup_exclusive_objects[dg][category]
HasParent(dg) == dg \in DOMAIN hierarchy_parent

\* the stable identity of an entry: its uuid attribute
Identity(entry) == ElementGet(entry, "uuid")

\* C1 as stated: after load_config_package built the snapshot, exclusive_entries
\* exists for every scope and every supported category, object categories included,
\* is a subset of all_entries, and equals all_entries for the parentless shared scope
C1_Original ==
    Loaded =>
        \A dg \in AllDeviceGroupSet : \A category \in Categories :
            /\ HasExclusive(dg, category)
            /\ Range(ExclusiveEntries(dg, category)) \subseteq Range(AllEntries(dg, category))
            /\ (dg = "shared" /\ ~HasParent(dg))
                   => ExclusiveEntries(dg, category) = AllEntries(dg, category)

\* C2 as stated, for the policy categories: for every scope with a parent,
\* exclusive_entries is exactly the entries of all_entries, in their order, whose
\* identity (uuid) does not occur in the parent's all_entries of that category
C2_Original ==
    Loaded =>
        \A dg \in AllDeviceGroupSet : \A category \in PolicyTypeSet :
            HasParent(dg) =>
                LET parent_ids ==
                        {Identity(e) : e \in Range(AllEntries(hierarchy_parent[dg], category))}
                IN  ExclusiveEntries(dg, category)
                        = SelectSeq(AllEntries(dg, category),
                                    LAMBDA e : Identity(e) \notin parent_ids)

\* a scope whose recorded parent is not a known scope
ParentUnknown(dg) == HasParent(dg) /\ hierarchy_parent[dg] \notin AllDeviceGroupSet

\* C3 as stated, for a scope whose recorded parent is not a known scope:
\* load_config_package still completes, and that scope's exclusive entries and
\* active-leaf list are empty
C3_Original ==
    (phase # "config" /\ \E dg \in AllDeviceGroupSet : ParentUnknown(dg)) =>
        /\ Loaded
        /\ \A dg \in AllDeviceGroupSet :
            ParentUnknown(dg) =>
                /\ \A category \in PolicyTypeSet : ExclusiveEntries(dg, category) = <<>>
                /\ ActiveChildFirewalls(dg) = <<>>

\* the firewalls of the raw active-firewall list of a scope: the members of the
\* scope that are connected; none when the configuration is read from a file
RawActiveFirewalls(dg) ==
    IF xml_file THEN {}
    ELSE {fw \in Range(DefaultList(dgs_and_firewalls, dg)) : fw \in active_firewalls}

\* the scopes of the descendant closure of dg, dg included
Closure(dg) == Range(pkg.devicegroup_objects[dg]["all_child_device_groups"])

NoDuplicates(seq) == \A i, j \in DOMAIN seq : seq[i] = seq[j] => i = j

\* C11: after a load, the all_active_child_firewalls list of every scope holds
\* exactly the firewalls of the raw active-firewall lists of the scopes of its
\* descendant closure, and holds no firewall more than once
C11_Original ==
    Loaded =>
        \A dg \in AllDeviceGroupSet :
            /\ Range(ActiveChildFirewalls(dg))
                   = UNION {RawActiveFirewalls(c) : c \in Closure(dg)}
            /\ NoDuplicates(ActiveChildFirewalls(dg))

(***************************************************************************)
(* Claims about the hostname validators                                    *)
(***************************************************************************)
RanBadHostname == "BadHostname" \in ran
RanUsage == "BadHostnameUsage" \in ran
RunScopes == Range(pkg.device_groups)
RuleTypes == {"SecurityPreRules", "SecurityPostRules"}

\* how many elements of a sequence equal e
Occurrences(e, seq) == Cardinality({i \in DOMAIN seq : seq[i] = e})

\* a hostname matches a configured ignore-prefix, compared case-insensitively
MatchesIgnorePrefix(hostname) ==
    \E i \in DOMAIN ignored_cfg : StartsWith(Lower(hostname), Lower(ignored_cfg[i]))

\* a hostname that is not ignored and fails to resolve
Unresolved(hostname) == ~MatchesIgnorePrefix(hostname) /\ Lower(hostname) \notin dns

\* an address entry with at least one such hostname
IsBadAddress(entry) == \E k \in DOMAIN entry.fqdn : Unresolved(entry.fqdn[k])

\* the names of the bad addresses of the scopes of the run
BadNames ==
    {e.attrib.name : e \in {x \in UNION {Range(AllEntries(dg, "Addresses")) : dg \in RunScopes} :
                                IsBadAddress(x)}}

\* a rule flagged disabled
FlaggedDisabled(entry) == entry.disabled = "yes"

\* C4: find_badhostnameusage never returns a Finding whose offending entry is a
\* policy rule flagged disabled, whatever its source and destination members are
C4_DisabledRuleNeverReported ==
    RanUsage =>
        \A i \in DOMAIN usage_result :
            usage_result[i].entry_type \in RuleTypes => ~FlaggedDisabled(usage_result[i].data)

\* C4 witness: find_badhostnameusage ran on a snapshot in which a disabled rule of a
\* scope of the run references a bad address, and Findings were returned
C4_Witness ==
    /\ RanUsage
    /\ usage_result # <<>>
    /\ \E dg \in RunScopes, rt \in RuleTypes :
         \E i \in DOMAIN ExclusiveEntries(dg, rt) :
            LET e == ExclusiveEntries(dg, rt)[i]
            IN  /\ FlaggedDisabled(e)
                /\ (Range(e.source) \cup Range(e.destination)) \cap BadNames # {}

\* the Findings of find_badhostname for an entry of a scope
AddressFindings(dg, entry) ==
    {i \in DOMAIN bh_result : bh_result[i].device_group = dg /\ bh_result[i].data = entry}

\* C9 as stated: find_badhostname returns exactly one Finding per (scope, address
\* entry) pair in which the entry has an unresolved hostname, none for other pairs
C9_Original ==
    RanBadHostname =>
        \A dg \in RunScopes : \A e \in Range(AllEntries(dg, "Addresses")) :
            Cardinality(AddressFindings(dg, e))
                = IF IsBadAddress(e) THEN Occurrences(e, AllEntries(dg, "Addresses")) ELSE 0

\* C9 amended: find_badhostname returns exactly one Finding per unresolved,
\* non-ignored hostname of each (scope, address entry) pair, naming that hostname,
\* and no other Finding; a hostname matching an ignore-prefix is never looked up and
\* never makes its entry bad
C9_OneFindingPerUnresolvedHostname ==
    RanBadHostname =>
        /\ \A i \in DOMAIN bh_result :
            /\ bh_result[i].device_group \in RunScopes
            /\ bh_result[i].entry_type = "Addresses"
            /\ bh_result[i].data \in Range(AllEntries(bh_result[i].device_group, "Addresses"))
            /\ \E k \in DOMAIN bh_result[i].data.fqdn :
                /\ Unresolved(bh_result[i].data.fqdn[k])
                /\ bh_result[i].text.detail = Lower(bh_result[i].data.fqdn[k])
        /\ \A dg \in RunScopes : \A e \in Range(AllEntries(dg, "Addresses")) :
            Cardinality(AddressFindings(dg, e))
                = Occurrences(e, AllEntries(dg, "Addresses"))
                    * Cardinality({k \in DOMAIN e.fqdn : Unresolved(e.fqdn[k])})
        /\ \A h \in bh_lookups : ~MatchesIgnorePrefix(h)

\* C9 witness: find_badhostname ran on a snapshot holding an address with two
\* unresolved hostnames and an address whose only hostname is ignored and would
\* not resolve
C9_Witness ==
    /\ RanBadHostname
    /\ \E dg \in RunScopes : \E e \in Range(AllEntries(dg, "Addresses")) :
        Cardinality({k \in DOMAIN e.fqdn : Unresolved(e.fqdn[k])}) >= 2
    /\ \E dg \in RunScopes : \E e \in Range(AllEntries(dg, "Addresses")) :
        /\ e.fqdn # <<>>
        /\ \A k \in DOMAIN e.fqdn :
            MatchesIgnorePrefix(e.fqdn[k]) /\ Lower(e.fqdn[k]) \notin dns

\* the order sorted() puts the names in
NameRank(n) == CASE n = "any" -> 0 [] n = "h1" -> 1 [] n = "h2" -> 2
IsSortedNames(seq) ==
    \A i \in DOMAIN seq : \A j \in DOMAIN seq : i < j => NameRank(seq[i]) < NameRank(seq[j])

\* the members of a direction of a rule
DirectionMembers(entry, direction) ==
    IF direction = "Source" THEN Range(entry.source) ELSE Range(entry.destination)

\* the Findings of find_badhostnameusage for a direction of a rule of a scope
RuleDirectionFindings(dg, rt, entry, direction) ==
    {i \in DOMAIN usage_result :
        /\ usage_result[i].device_group = dg
        /\ usage_result[i].entry_type = rt
        /\ usage_result[i].data = entry
        /\ usage_result[i].text.direction = direction}

\* what the claim asks of the rules in `rules(dg, rt)`
UsageCoversRules(rules(_, _)) ==
    \A dg \in RunScopes : \A rt \in RuleTypes : \A e \in Range(rules(dg, rt)) :
        ~FlaggedDisabled(e) =>
            \A direction \in {"Source", "Dest"} :
                LET offending == DirectionMembers(e, direction) \cap BadNames
                    found == RuleDirectionFindings(dg, rt, e, direction)
                IN  /\ Cardinality(found)
                        = IF offending # {} THEN Occurrences(e, rules(dg, rt)) ELSE 0
                    /\ \A i \in found :
                        /\ Range(usage_result[i].text.detail) = offending
                        /\ IsSortedNames(usage_result[i].text.detail)

\* C10 as stated: for every scope of the run and every enabled security rule of that
\* scope, one Finding per member field that meets the bad addresses, none otherwise
C10_Original == RanUsage => UsageCoversRules(AllEntries)

\* C10 amended: for every scope of the run and every enabled security rule among
\* that scope's exclusive entries (pre-rules and post-rules), exactly one Finding per
\* member field (source, destination) that meets the bad-address names, naming the
\* direction and the offending members in sorted order, and none for a field that
\* does not; rules that are not exclusive to the scope get no Finding
C10_UsageCoversExclusiveRules ==
    RanUsage =>
        /\ UsageCoversRules(ExclusiveEntries)
        /\ \A i \in DOMAIN usage_result :
            usage_result[i].entry_type \in RuleTypes =>
                /\ usage_result[i].device_group \in RunScopes
                /\ usage_result[i].data
                       \in Range(ExclusiveEntries(usage_result[i].device_group,
                                                  usage_result[i].entry_type))

\* C10 witness: find_badhostnameusage ran; an enabled rule exclusive to a scope of the
\* run references a bad address in its destination only and got exactly one
\* Finding, for the destination
C10_Witness ==
    /\ RanUsage
    /\ \E dg \in RunScopes, rt \in RuleTypes : \E e \in Range(ExclusiveEntries(dg, rt)) :
        /\ ~FlaggedDisabled(e)
        /\ Range(e.source) \cap BadNames = {}
        /\ Range(e.destination) \cap BadNames # {}
        /\ Cardinality(RuleDirectionFindings(dg, rt, e, "Dest")) = 1
        /\ RuleDirectionFindings(dg, rt, e, "Source") = {}

(***************************************************************************)
(* Claims about the consolidation fixer                                    *)
(***************************************************************************)
NumFindings == Len(validator_findings)
IsUpdate(call) == call.api \in {"update_devicegroup_object", "update_devicegroup_policy"}
IsValidate(call) == call.api = "validate_commit"
SupportedType(t) == t \in ObjectTypeSet \/ t \in PolicyTypeSet
AllSupported == \A i \in DOMAIN validator_findings : SupportedType(validator_findings[i].entry_type)

\* the update the claim expects for a Finding
ExpectedUpdate(finding) ==
    [api |-> IF finding.entry_type \in ObjectTypeSet THEN "update_devicegroup_object"
             ELSE "update_devicegroup_policy",
     payload |-> finding.data[2],
     category |-> finding.entry_type,
     device_group |-> finding.device_group]

\* C5: when the equivalence validator returns no Findings, the fixer issues no
\* remote call (no update, no validate_commit) and returns the empty result
C5_NoFindingsNoRemoteCalls ==
    (validator_findings = <<>> /\ fpc # "idle") =>
        /\ fpc = "done"
        /\ trace = <<>>
        /\ fresult = <<>>

\* C5 witness: the fixer has run and returned on an empty list of Findings
C5_Witness == validator_findings = <<>> /\ fpc = "done"

\* C6: with n >= 1 Findings of supported categories and no failing remote call, the
\* trace is the n updates, one per Finding in Finding order (object API for object
\* categories, policy API for policy categories, keyed by scope and category),
\* followed by exactly one validate_commit; validate_commit is never issued before
\* the last update and never more than once
C6_UpdatesThenOneValidate ==
    (NumFindings >= 1 /\ AllSupported) =>
        /\ \A i \in DOMAIN trace :
            IF i <= NumFindings
            THEN trace[i] = ExpectedUpdate(validator_findings[i])
            ELSE i = NumFindings + 1 /\ IsValidate(trace[i])
        /\ fpc = "done" =>
            /\ Len(trace) = NumFindings + 1
            /\ fresult = validator_findings

\* C6 witness: the fixer completed on two or more Findings, of an object category
\* and of a policy category
C6_Witness ==
    /\ fpc = "done" /\ AllSupported /\ NumFindings >= 2
    /\ \E i \in DOMAIN validator_findings : validator_findings[i].entry_type \in ObjectTypeSet
    /\ \E i \in DOMAIN validator_findings : validator_findings[i].entry_type \in PolicyTypeSet

\* C7 as stated: handed a Finding whose entry_type is neither a supported object
\* nor a supported policy category, the fixer fails; it does not carry on to the
\* validate_commit call and return as if the run had succeeded
C7_Original ==
    (\E i \in DOMAIN validator_findings : ~SupportedType(validator_findings[i].entry_type))
        => /\ fpc # "done"
           /\ \A i \in DOMAIN trace : ~IsValidate(trace[i])

\* the Findings whose category the fixer dispatches an update for
DispatchedFindings ==
    SelectSeq(validator_findings, LAMBDA f : SupportedType(f.entry_type))

\* C8: once the k-th update call, the one that raises, has been issued, the failure
\* has left the fixer: the trace is the k-1 earlier updates (still in place, not
\* undone) and the failing call, once; no later update and no validate_commit
\* follows, and nothing is returned
C8_FailedUpdateAborts ==
    (fail_at \in 1..Len(DispatchedFindings) /\ Len(trace) >= fail_at) =>
        /\ fpc = "raised"
        /\ Len(trace) = fail_at
        /\ \A i \in DOMAIN trace : trace[i] = ExpectedUpdate(DispatchedFindings[i])
        /\ fresult = <<>>

\* C8 witness: the second or a later update raised with Findings still to come
C8_Witness ==
    /\ fpc = "raised"
    /\ fail_at >= 2 /\ fail_at < Len(DispatchedFindings)
    /\ Len(trace) = fail_at

\* the lookup cache only gains entries: no cached hostname is dropped or re-answered
CacheOnlyGains ==
    \A h \in DOMAIN dns_cache : h \in DOMAIN dns_cache' /\ dns_cache'[h] = dns_cache[h]

\* C12: on a loaded snapshot, with a lookup cache that only gains entries, a further
\* run of find_badhostname returns the Findings its earlier run returned, a further
\* run of find_badhostnameusage (which invokes find_badhostname through the registry)
\* returns the Findings its earlier run returned, and no run changes the snapshot,
\* whatever the resolver answers by then
C12_RerunReturnsSameFindings ==
    [][(Loaded /\ CacheOnlyGains) =>
           /\ RanBadHostname => bh_result' = bh_result
           /\ RanUsage => usage_result' = usage_result
           /\ pkg' = pkg]_vars

\* C12 witness: both validators have returned Findings and have been run again after
\* a hostname memoized as unresolved started to resolve
C12_Witness ==
    /\ Loaded
    /\ reran = {"BadHostname", "BadHostnameUsage"}
    /\ bh_result # <<>>
    /\ usage_result # <<>>
    /\ \E h \in DOMAIN dns_cache : dns_cache[h] = None /\ h \in dns

(***************************************************************************)
(* Claims about the device-group filter                                    *)
(***************************************************************************)
Filtered == device_group # None

\* the address names an address group or a rule Finding reports as bad
ReportedBadNames(finding) == Range(finding.text.detail)

\* the addresses of a scope with a hostname that fails to resolve
BadAddressesOf(dg) == {e \in Range(cfg[dg]["Addresses"]) : IsBadAddress(e)}

\* C14: a load under a device-group filter builds the entries of every scope, and
\* the exclusive entries of every scope and policy category, sets device_groups to
\* the filter alone, and every Finding the hostname validators then return is of the
\* filtered scope, the usage Findings naming only addresses found bad in that scope
C14_FilterRestrictsFindings ==
    (Loaded /\ Filtered) =>
        /\ pkg.device_groups = <<device_group>>
        /\ \A dg \in AllDeviceGroupSet :
              /\ \A category \in Categories : AllEntries(dg, category) = cfg[dg][category]
              /\ \A category \in PolicyTypeSet :
                    /\ HasExclusive(dg, category)
                    /\ Range(ExclusiveEntries(dg, category)) \subseteq Range(cfg[dg][category])
        /\ RanBadHostname =>
              \A i \in DOMAIN bh_result : bh_result[i].device_group = device_group
        /\ RanUsage =>
              \A i \in DOMAIN usage_result :
                  /\ usage_result[i].device_group = device_group
                  /\ ReportedBadNames(usage_result[i])
                        \subseteq {e.attrib.name : e \in BadAddressesOf(device_group)}

\* C14 witness: under a filter, both validators returned Findings while a scope
\* outside the filter holds a bad address, whose name an entry of the filtered scope
\* refers to, that no address of the filtered scope bears
C14_Witness ==
    /\ Loaded /\ Filtered
    /\ RanBadHostname /\ bh_result # <<>>
    /\ RanUsage /\ usage_result # <<>>
    /\ \E dg \in AllDeviceGroupSet \ {device_group} :
          \E e \in BadAddressesOf(dg) :
              /\ e.attrib.name \notin {x.attrib.name : x \in BadAddressesOf(device_group)}
              /\ \E i \in DOMAIN usage_result :
                    e.attrib.name \in Range(usage_result[i].data.members)
                                      \cup Range(usage_result[i].data.source)
                                      \cup Range(usage_result[i].data.destination)

(***************************************************************************)
(* Claims about the report                                                 *)
(***************************************************************************)
Written == rpc = "written"

\* the positions of the output that hold the header of the named validator
HeadersOf(name) ==
    {i \in DOMAIN output : output[i].kind = "header" /\ output[i].name = name}

\* the output holds the given Findings as text lines, in order, from position first
\* on, and the line after them is no text line
TextsFollow(first, findings) ==
    /\ first + Len(findings) <= Len(output)
    /\ \A j \in DOMAIN findings :
          output[first + j - 1] = [kind |-> "text", text |-> findings[j].text]
    /\ output[first + Len(findings)].kind # "text"

RECURSIVE SumOfCounts(_)
SumOfCounts(calls) ==
    IF calls = <<>> THEN 0 ELSE Len(Head(calls)[2]) + SumOfCounts(Tail(calls))

\* C13: once the report is written, every validator that was run has exactly one
\* header, whose count is the number of Findings the validator returned and which is
\* followed (after the closing rule) by one text line per Finding in the order
\* returned; no other header is written; total_problems is the sum of the counts of
\* the validators run; and the validators were called one at a time in the order of
\* the validators dict, each once
C13_ReportMatchesFindings ==
    /\ (rpc # "idle") =>
          /\ Len(returned) = ridx - 1
          /\ \A k \in DOMAIN returned : returned[k][1] = validators[k]
          /\ total_problems = SumOfCounts(returned)
    /\ Written =>
          /\ Len(returned) = Len(validators)
          /\ \A k \in DOMAIN returned :
                LET name == returned[k][1]
                    findings == returned[k][2]
                IN  /\ Cardinality(HeadersOf(name)) = 1
                    /\ \A i \in HeadersOf(name) :
                          /\ output[i].count = Len(findings)
                          /\ TextsFollow(i + 2, findings)
          /\ Cardinality({i \in DOMAIN output : output[i].kind = "header"}) = Len(returned)
          /\ Cardinality({i \in DOMAIN output : output[i].kind = "text"}) = total_problems

\* C13 witness: both validators were run and the report is written, one of them
\* having returned two Findings with different texts and the other at least one
C13_Witness ==
    /\ Written
    /\ Len(returned) = 2
    /\ \E k \in DOMAIN returned :
          /\ Len(returned[k][2]) = 2
          /\ returned[k][2][1].text # returned[k][2][2].text
    /\ \A k \in DOMAIN returned : returned[k][2] # <<>>

====
